---- MODULE Spec2Model ----
(* Freestyle trainer (src/freestyle/main.py): the dictionary file format    *)
(* (load_rhyme_groups / save_rhyme_groups) and the interactive session of   *)
(* main().  Texts and words are sequences of one-character strings.         *)
EXTENDS Integers, Sequences, FiniteSets, TLC

VARIABLES file, pc, rhyme_groups, current_rhyme_group, current_word,
          key, new_word, out, writes, loaded

vars == <<file, pc, rhyme_groups, current_rhyme_group, current_word,
          key, new_word, out, writes, loaded>>

(* ---------------------------------------------------------------- bounds *)
MaxFileLen == 4
MaxInputLen == 2
MaxWrites == 1

(* ------------------------------------------------------------ vocabulary *)
NL == "\n"
Letters == {"a", "b"}
Whitespace == {" ", NL}
FileChars == Letters \cup Whitespace
InputChars == {"a", " "}

None == <<"None">>
Missing == <<"Missing">>
BadBytes == <<"BadBytes">>

SeqsUpTo(S, n) == UNION {[1..k -> S] : k \in 0..n}

ExampleText == <<"c","a","t",NL,"h","a","t",NL,NL,"d","o","g",NL,"l","o","g",NL>>

(* ------------------------------------------------------ str.strip() etc. *)
IsSpace(c) == c \in Whitespace

RECURSIVE lstrip(_)
lstrip(s) == IF s /= <<>> /\ IsSpace(Head(s)) THEN lstrip(Tail(s)) ELSE s

RECURSIVE rstrip(_)
rstrip(s) == IF s /= <<>> /\ IsSpace(s[Len(s)])
             THEN rstrip(SubSeq(s, 1, Len(s) - 1)) ELSE s

stripLeftOnly(s) == lstrip(s)

strip(s) == rstrip(lstrip(s))

FirstNL(text) == IF \E i \in 1..Len(text) : text[i] = NL
                 THEN CHOOSE i \in 1..Len(text) :
                        text[i] = NL /\ \A j \in 1..(i - 1) : text[j] /= NL
                 ELSE 0

RECURSIVE readlines(_)
readlines(text) ==
  IF text = <<>> THEN <<>>
  ELSE LET n == FirstNL(text) IN
       IF n = 0 THEN <<text>>
       ELSE <<SubSeq(text, 1, n)>> \o readlines(SubSeq(text, n + 1, Len(text)))

StrippedLines(text) == LET ls == readlines(text) IN [i \in 1..Len(ls) |-> strip(ls[i])]

(* --------------------------------------------------- load_rhyme_groups() *)
RECURSIVE GroupLoop(_, _, _)
GroupLoop(lines, groups, current_group) ==
  IF lines = <<>> THEN <<groups, current_group>>
  ELSE LET line == Head(lines) IN
       IF line /= <<>> THEN GroupLoop(Tail(lines), groups, Append(current_group, line))
       ELSE IF current_group /= <<>>
            THEN GroupLoop(Tail(lines), Append(groups, current_group), <<>>)
            ELSE GroupLoop(Tail(lines), groups, current_group)

CloseLastMut(groups, current_group) == groups

CloseLast(groups, current_group) ==
  IF current_group /= <<>> THEN Append(groups, current_group) ELSE groups

ParseMut(text) ==
  LET r == GroupLoop(StrippedLines(text), <<>>, <<>>)
  IN [err |-> "ok", groups |-> CloseLast(r[1], r[2])]

Parse(text) ==
  LET r == GroupLoop(StrippedLines(text), <<>>, <<>>)
      gs == CloseLast(r[1], r[2])
  IN IF gs = <<>> THEN [err |-> "ValueError", groups |-> <<>>]
     ELSE [err |-> "ok", groups |-> gs]

load_rhyme_groups(f) ==
  IF f = Missing THEN [err |-> "FileNotFoundError", groups |-> <<>>]
  ELSE Parse(f)

(* --------------------------------------------------- save_rhyme_groups() *)
RECURSIVE JoinMut(_)
JoinMut(group) == IF group = <<>> THEN <<>>
                  ELSE IF Len(group) = 1 THEN group[1]
                  ELSE group[1] \o <<" ">> \o JoinMut(Tail(group))

RECURSIVE Join(_)
Join(group) == IF group = <<>> THEN <<>>
               ELSE IF Len(group) = 1 THEN group[1]
               ELSE group[1] \o <<NL>> \o Join(Tail(group))

GroupTextMut(group) == Join(group) \o <<NL>>

GroupText(group) == Join(group) \o <<NL, NL>>

SerializeLastOnly(groups) == IF groups = <<>> THEN <<>>
                             ELSE GroupText(groups[Len(groups)])

RECURSIVE Serialize(_)
Serialize(groups) == IF groups = <<>> THEN <<>>
                     ELSE GroupText(Head(groups)) \o Serialize(Tail(groups))

(* what the file may hold after open(..., "w") + write + close:            *)
(* the whole text, or, when the write raises, the old content (open       *)
(* failed) or a proper prefix of the new text (truncated, partly flushed) *)
WriteFailures(old, text) ==
  {old} \cup {SubSeq(text, 1, n) : n \in 0..(Len(text) - 1)}

(* ------------------------------------------------------------ main(): UI *)
Truthy(x) == x /= None /\ x /= <<>>

GroupTruthy(groups, g) == g /= 0 /\ groups[g] /= <<>>

RenderWord(w) == <<"word", w>>
RenderRhymeSet(g, w) == <<"rhymes", g, w>>
RenderNotice(kind, w) == <<"notice", kind, w>>
RenderError(e) == <<"error", e>>
ReadLine == <<"readLine">>

LoopTop(w) == IF Truthy(w) THEN <<RenderWord(w)>> ELSE <<>>

Init ==
  /\ file \in SeqsUpTo(FileChars, MaxFileLen) \cup {ExampleText, Missing}
  /\ pc = "start"
  /\ rhyme_groups = <<>>
  /\ current_rhyme_group = 0
  /\ current_word = None
  /\ key = "none"
  /\ new_word = None
  /\ out = <<>>
  /\ writes = 0
  /\ loaded = <<>>

LoadOk ==
  /\ pc = "start"
  /\ load_rhyme_groups(file).err = "ok"
  /\ rhyme_groups' = load_rhyme_groups(file).groups
  /\ current_word' = None
  /\ current_rhyme_group' = 0
  /\ pc' = "loop"
  /\ out' = LoopTop(current_word')
  /\ loaded' = rhyme_groups'
  /\ UNCHANGED <<file, key, new_word, writes>>

LoadFail ==
  /\ pc = "start"
  /\ load_rhyme_groups(file).err /= "ok"
  /\ out' = <<RenderError(load_rhyme_groups(file).err)>>
  /\ pc' = "error"
  /\ UNCHANGED <<file, rhyme_groups, current_rhyme_group, current_word, key, new_word, writes, loaded>>

AckMut ==
  /\ pc = "error"
  /\ pc' = "loop"
  /\ out' = <<>>
  /\ UNCHANGED <<file, rhyme_groups, current_rhyme_group, current_word, key, new_word, writes, loaded>>

Ack ==
  /\ pc = "error"
  /\ pc' = "exited"
  /\ out' = <<>>
  /\ UNCHANGED <<file, rhyme_groups, current_rhyme_group, current_word, key, new_word, writes, loaded>>

NewWordUnpaired ==
  /\ pc = "loop"
  /\ key' = "space"
  /\ \E g \in 1..Len(rhyme_groups) :
       \E w \in 1..Len(rhyme_groups[g]) :
         current_word' = rhyme_groups[g][w]
  /\ out' = LoopTop(current_word')
  /\ new_word' = None
  /\ UNCHANGED <<file, pc, rhyme_groups, current_rhyme_group, writes, loaded>>

NewWordMut ==
  /\ pc = "loop"
  /\ key' = "space"
  /\ \E g \in 1..Len(rhyme_groups) :
       \E h \in 1..Len(rhyme_groups) :
         \E w \in 1..Len(rhyme_groups[h]) :
           /\ current_rhyme_group' = g
           /\ current_word' = rhyme_groups[h][w]
  /\ out' = LoopTop(current_word')
  /\ new_word' = None
  /\ UNCHANGED <<file, pc, rhyme_groups, writes, loaded>>

NewWord ==
  /\ pc = "loop"
  /\ key' = "space"
  /\ \E g \in 1..Len(rhyme_groups) :
       \E w \in 1..Len(rhyme_groups[g]) :
         /\ current_rhyme_group' = g
         /\ current_word' = rhyme_groups[g][w]
  /\ out' = LoopTop(current_word')
  /\ new_word' = None
  /\ UNCHANGED <<file, pc, rhyme_groups, writes, loaded>>

ShowRhymesClears ==
  /\ pc = "loop"
  /\ key' = "r"
  /\ out' = (IF Truthy(current_word) /\ GroupTruthy(rhyme_groups, current_rhyme_group)
             THEN <<RenderRhymeSet(rhyme_groups[current_rhyme_group], current_word)>>
             ELSE <<>>)
  /\ current_word' = None
  /\ current_rhyme_group' = 0
  /\ new_word' = None
  /\ UNCHANGED <<file, pc, rhyme_groups, writes, loaded>>

ShowRhymesMut ==
  /\ pc = "loop"
  /\ key' = "r"
  /\ current_word' = (IF Truthy(current_word) /\ GroupTruthy(rhyme_groups, current_rhyme_group)
                      THEN rhyme_groups[current_rhyme_group][1] ELSE current_word)
  /\ out' = (IF Truthy(current_word) /\ GroupTruthy(rhyme_groups, current_rhyme_group)
             THEN <<RenderRhymeSet(rhyme_groups[current_rhyme_group], current_word),
                    RenderWord(current_word')>>
             ELSE <<>>) \o LoopTop(current_word')
  /\ new_word' = None
  /\ UNCHANGED <<file, pc, rhyme_groups, current_rhyme_group, writes, loaded>>

ShowRhymes ==
  /\ pc = "loop"
  /\ key' = "r"
  /\ out' = (IF Truthy(current_word) /\ GroupTruthy(rhyme_groups, current_rhyme_group)
             THEN <<RenderRhymeSet(rhyme_groups[current_rhyme_group], current_word),
                    RenderWord(current_word)>>
             ELSE <<>>) \o LoopTop(current_word)
  /\ new_word' = None
  /\ UNCHANGED <<file, pc, rhyme_groups, current_rhyme_group, current_word, writes, loaded>>

(* get_user_input(): the typed line, decoded and stripped *)
get_user_input(raw) == strip(raw)

UserInputs == {get_user_input(raw) : raw \in SeqsUpTo(InputChars, MaxInputLen)}

AddIdleMut ==
  /\ ~GroupTruthy(rhyme_groups, current_rhyme_group)
  /\ new_word' = <<>>
  /\ out' = <<ReadLine>> \o LoopTop(current_word)
  /\ UNCHANGED <<file, pc, rhyme_groups, writes, loaded>>

AddIdle ==
  /\ ~GroupTruthy(rhyme_groups, current_rhyme_group)
  /\ new_word' = None
  /\ out' = LoopTop(current_word)
  /\ UNCHANGED <<file, pc, rhyme_groups, writes, loaded>>

AddDecodeError ==
  /\ GroupTruthy(rhyme_groups, current_rhyme_group)
  /\ new_word' = BadBytes
  /\ out' = <<ReadLine>>
  /\ pc' = "crashed"
  /\ UNCHANGED <<file, rhyme_groups, writes, loaded>>

AddEmpty(word) ==
  /\ GroupTruthy(rhyme_groups, current_rhyme_group)
  /\ new_word' = word
  /\ word = <<>>
  /\ out' = <<ReadLine>> \o LoopTop(current_word)
  /\ UNCHANGED <<file, pc, rhyme_groups, writes, loaded>>

InGroupFirstOnly(w, group) == group /= <<>> /\ group[1] = w

InGroup(w, group) == \E i \in 1..Len(group) : group[i] = w

AddDuplicateMut(word) ==
  /\ GroupTruthy(rhyme_groups, current_rhyme_group)
  /\ writes < MaxWrites
  /\ new_word' = word
  /\ word /= <<>>
  /\ InGroup(word, rhyme_groups[current_rhyme_group])
  /\ rhyme_groups' = [rhyme_groups EXCEPT ![current_rhyme_group] = Append(@, word)]
  /\ writes' = writes + 1
  /\ loaded' = loaded
  /\ file' = Serialize(rhyme_groups')
  /\ out' = <<ReadLine, RenderNotice("exists", word)>> \o LoopTop(current_word)
  /\ pc' = pc

AddDuplicate(word) ==
  /\ GroupTruthy(rhyme_groups, current_rhyme_group)
  /\ new_word' = word
  /\ word /= <<>>
  /\ InGroup(word, rhyme_groups[current_rhyme_group])
  /\ out' = <<ReadLine, RenderNotice("exists", word)>> \o LoopTop(current_word)
  /\ UNCHANGED <<file, pc, rhyme_groups, writes, loaded>>

AppendWordByValue(groups, g, w) ==
  [h \in DOMAIN groups |-> IF groups[h] = groups[g] THEN Append(groups[h], w)
                                                    ELSE groups[h]]

AppendWordMut(groups, g, w) == [groups EXCEPT ![g] = <<w>> \o @]

AppendWord(groups, g, w) == [groups EXCEPT ![g] = Append(@, w)]

AddAppendRollback(word) ==
  /\ GroupTruthy(rhyme_groups, current_rhyme_group)
  /\ writes < MaxWrites
  /\ new_word' = word
  /\ word /= <<>>
  /\ ~InGroup(word, rhyme_groups[current_rhyme_group])
  /\ writes' = writes + 1
  /\ loaded' = loaded
  /\ \/ /\ rhyme_groups' = AppendWord(rhyme_groups, current_rhyme_group, word)
        /\ file' = Serialize(rhyme_groups')
        /\ out' = <<ReadLine, RenderNotice("added", word)>> \o LoopTop(current_word)
        /\ pc' = pc
     \/ /\ rhyme_groups' = rhyme_groups
        /\ file' \in WriteFailures(file,
                       Serialize(AppendWord(rhyme_groups, current_rhyme_group, word)))
        /\ out' = <<ReadLine>>
        /\ pc' = "crashed"

AddAppendSwallow(word) ==
  /\ GroupTruthy(rhyme_groups, current_rhyme_group)
  /\ writes < MaxWrites
  /\ new_word' = word
  /\ word /= <<>>
  /\ ~InGroup(word, rhyme_groups[current_rhyme_group])
  /\ rhyme_groups' = AppendWord(rhyme_groups, current_rhyme_group, word)
  /\ writes' = writes + 1
  /\ loaded' = loaded
  /\ file' \in {Serialize(rhyme_groups')} \cup WriteFailures(file, Serialize(rhyme_groups'))
  /\ out' = <<ReadLine, RenderNotice("added", word)>> \o LoopTop(current_word)
  /\ pc' = pc

AddAppend(word) ==
  /\ GroupTruthy(rhyme_groups, current_rhyme_group)
  /\ writes < MaxWrites
  /\ new_word' = word
  /\ word /= <<>>
  /\ ~InGroup(word, rhyme_groups[current_rhyme_group])
  /\ rhyme_groups' = AppendWord(rhyme_groups, current_rhyme_group, word)
  /\ writes' = writes + 1
  /\ loaded' = loaded
  /\ \/ /\ file' = Serialize(rhyme_groups')
        /\ out' = <<ReadLine, RenderNotice("added", word)>> \o LoopTop(current_word)
        /\ pc' = pc
     \/ /\ file' \in WriteFailures(file, Serialize(rhyme_groups'))
        /\ out' = <<ReadLine>>
        /\ pc' = "crashed"

AddWord ==
  /\ pc = "loop"
  /\ key' = "a"
  /\ UNCHANGED <<current_rhyme_group, current_word>>
  /\ \/ AddIdle
     \/ AddDecodeError
     \/ \E word \in UserInputs :
          AddEmpty(word) \/ AddDuplicate(word) \/ AddAppend(word)

QuitNoBreak ==
  /\ pc = "loop"
  /\ key' = "q"
  /\ new_word' = None
  /\ out' = LoopTop(current_word)
  /\ UNCHANGED <<file, pc, rhyme_groups, current_rhyme_group, current_word, writes, loaded>>

Quit ==
  /\ pc = "loop"
  /\ key' = "q"
  /\ pc' = "quit"
  /\ new_word' = None
  /\ out' = <<>>
  /\ UNCHANGED <<file, rhyme_groups, current_rhyme_group, current_word, writes, loaded>>

OtherKey ==
  /\ pc = "loop"
  /\ key' = "other"
  /\ new_word' = None
  /\ out' = LoopTop(current_word)
  /\ UNCHANGED <<file, pc, rhyme_groups, current_rhyme_group, current_word, writes, loaded>>

Next == LoadOk \/ LoadFail \/ Ack \/ NewWord \/ ShowRhymes \/ AddWord \/ Quit \/ OtherKey

Spec == Init /\ [][Next]_vars

(* ================================================================ claims *)
Occurs(w, group) == w \in {group[i] : i \in DOMAIN group}

AllBlank(text) == \A i \in 1..Len(text) : text[i] \in Whitespace

Prompted == current_rhyme_group /= 0

Idle == current_word = None

Decoded(x) == x /= None /\ x /= BadBytes

C2_ParseSerializeParse ==
  (pc = "loop" /\ writes = 0) => Parse(Serialize(rhyme_groups)) = Parse(file)

C2_Witness ==
  /\ pc = "loop" /\ writes = 0
  /\ Len(rhyme_groups) >= 2
  /\ file /= Serialize(rhyme_groups)
  /\ Len(file) <= MaxFileLen

(* C3: the groups returned by load_rhyme_groups are exactly the maximal    *)
(* runs of non-blank trimmed lines, in order; blank lines only separate,   *)
(* and a last run with no blank line after it is still returned.           *)
RunStarts(L) == {i \in 1..Len(L) : L[i] /= <<>> /\ (i = 1 \/ L[i - 1] = <<>>)}

RunEnd(L, i) == CHOOSE j \in i..Len(L) :
                  /\ \A k \in i..j : L[k] /= <<>>
                  /\ (j = Len(L) \/ L[j + 1] = <<>>)

KthStart(L, k) == CHOOSE i \in RunStarts(L) :
                    Cardinality({j \in RunStarts(L) : j < i}) = k - 1

Runs(L) == [k \in 1..Cardinality(RunStarts(L)) |->
              SubSeq(L, KthStart(L, k), RunEnd(L, KthStart(L, k)))]

ExampleGroups == << << <<"c","a","t">>, <<"h","a","t">> >>,
                    << <<"d","o","g">>, <<"l","o","g">> >> >>

C3_MaximalRuns ==
  \A runs \in {Runs(StrippedLines(file))} :
    /\ file /= Missing => Parse(file).groups = runs
    /\ (pc = "loop" /\ writes = 0) =>
         /\ rhyme_groups = runs
         /\ \A g \in 1..Len(rhyme_groups) : rhyme_groups[g] /= <<>>
         /\ file = ExampleText => rhyme_groups = ExampleGroups

C3_Witness ==
  pc = "loop" /\ writes = 0 /\ file = ExampleText /\ rhyme_groups = ExampleGroups

(* C4: parsing a present source fails (ValueError, no dictionary) exactly  *)
(* when the text is empty or all of its lines are blank after trimming.    *)
C4_FailsIffBlank ==
  /\ file /= Missing => (Parse(file).err = "ValueError" <=> AllBlank(file))
  /\ (pc = "error" /\ file /= Missing) =>
       AllBlank(file) /\ rhyme_groups = <<>> /\ out = <<RenderError("ValueError")>>
  /\ (pc = "loop" /\ writes = 0) =>
       file /= Missing /\ ~AllBlank(file) /\ Len(rhyme_groups) >= 1

C4_Witness == pc = "error" /\ file = <<NL, NL, NL>>

(* C5: whenever current_word is set it is an element of the current group, *)
(* and the current group is one of the groups of the dictionary.           *)
C5_WordInGroup ==
  current_word /= None =>
    /\ current_rhyme_group \in 1..Len(rhyme_groups)
    /\ Occurs(current_word, rhyme_groups[current_rhyme_group])

C5_Witness ==
  /\ pc = "loop" /\ key = "a" /\ writes > 0 /\ current_word /= None
  /\ Len(rhyme_groups) >= 2
  /\ Occurs(current_word, rhyme_groups[current_rhyme_group])

(* C6: AddWord in Prompted with an input that is empty after trimming or   *)
(* already in the current group changes no group and writes nothing.       *)
C6_RejectedNoChange ==
  [][ ( /\ pc = "loop" /\ key' = "a" /\ Prompted /\ Decoded(new_word')
        /\ \/ new_word' = <<>>
           \/ Occurs(new_word', rhyme_groups[current_rhyme_group]) )
      => (rhyme_groups' = rhyme_groups /\ file' = file /\ writes' = writes) ]_vars

C6_Witness ==
  /\ pc = "loop" /\ key = "a" /\ Prompted /\ Decoded(new_word) /\ writes > 0
  /\ \E i \in 1..Len(out) : out[i] = RenderNotice("exists", new_word)
  /\ file = Serialize(rhyme_groups)

(* C7: AddWord in Prompted with a new non-empty trimmed word appends that  *)
(* word, once, at the end of the current group; when the write succeeds    *)
(* the re-parsed file has the word as last entry of the same group.        *)
C7_AppendAndPersist ==
  [][ ( /\ pc = "loop" /\ key' = "a" /\ Prompted /\ Decoded(new_word')
        /\ new_word' /= <<>>
        /\ ~Occurs(new_word', rhyme_groups[current_rhyme_group]) )
      => \E p \in {IF pc' = "loop" THEN Parse(file') ELSE Parse(<<>>)} :
           LET g == current_rhyme_group
               w == new_word'
           IN /\ rhyme_groups'[g] = Append(rhyme_groups[g], w)
              /\ Len(rhyme_groups') = Len(rhyme_groups)
              /\ pc' = "loop" =>
                   /\ p.err = "ok"
                   /\ Len(p.groups) = Len(rhyme_groups)
                   /\ Len(p.groups[g]) = Len(rhyme_groups[g]) + 1
                   /\ p.groups[g][Len(p.groups[g])] = w ]_vars

C7_Witness ==
  /\ pc = "loop" /\ key = "a" /\ Decoded(new_word) /\ writes > 0
  /\ current_rhyme_group = 2
  /\ out[2] = RenderNotice("added", new_word)
  /\ rhyme_groups[2][Len(rhyme_groups[2])] = new_word

(* C8: in Idle, ShowRhymes and AddWord change nothing, render nothing,     *)
(* ask for no input, write nothing and raise nothing.                      *)
C8_IdleNoOp ==
  [][ (pc = "loop" /\ Idle /\ key' \in {"r", "a"})
      => /\ UNCHANGED <<rhyme_groups, current_rhyme_group, current_word, file, writes>>
         /\ out' = <<>>
         /\ new_word' = None
         /\ pc' = "loop" ]_vars

C8_Witness ==
  pc = "loop" /\ Idle /\ key \in {"r", "a"} /\ out = <<>> /\ writes = 0

(* C9: when the load fails (source missing or zero groups) the error is    *)
(* shown once, one acknowledgment is read, and the program exits; no       *)
(* action is processed and nothing is written.                             *)
C9_StartupFailure ==
  /\ [](pc \in {"error", "exited"} =>
          key = "none" /\ writes = 0 /\ rhyme_groups = <<>> /\ current_word = None)
  /\ [][ /\ (pc = "start" /\ (file = Missing \/ AllBlank(file))) =>
              (pc' = "error" /\ Len(out') = 1 /\ out'[1][1] = "error")
         /\ pc = "error" => (pc' = "exited" /\ out' = <<>> /\ file' = file)
         /\ pc = "exited" => FALSE ]_vars

C9_Witness == pc = "exited" /\ file = Missing /\ key = "none"

(* C10: once in the loop, only Quit ends the session; no error while       *)
(* processing an action (a failed write in particular) terminates it.      *)
C10_OnlyQuitEnds ==
  [][ (pc = "loop" /\ pc' /= "loop") => key' = "q" ]_vars

(* C11: the current group is set exactly when the current word is set;     *)
(* both are unset when the loop starts and NewWord sets both in one step.  *)
C11_SetTogether ==
  /\ (current_rhyme_group = 0) <=> (current_word = None)
  /\ (pc = "loop" /\ key = "none") => (current_rhyme_group = 0 /\ current_word = None)
  /\ (pc = "loop" /\ key = "space") => (current_rhyme_group /= 0 /\ current_word /= None)

C11_Witness ==
  pc = "loop" /\ key = "space" /\ current_rhyme_group /= 0 /\ current_word /= None

(* C12: in Prompted, ShowRhymes and AddWord (accepted, duplicate or empty) *)
(* keep current_word and the current group; ShowRhymes also changes no     *)
(* group and writes nothing.                                               *)
C12_SelectionKept ==
  [][ (pc = "loop" /\ Prompted /\ key' \in {"r", "a"})
      => /\ current_word' = current_word
         /\ current_rhyme_group' = current_rhyme_group
         /\ key' = "r" =>
              (rhyme_groups' = rhyme_groups /\ file' = file /\ writes' = writes) ]_vars

C12_Witness ==
  /\ pc = "loop" /\ Prompted /\ key = "r"
  /\ out = <<RenderRhymeSet(rhyme_groups[current_rhyme_group], current_word),
             RenderWord(current_word), RenderWord(current_word)>>
  /\ Len(rhyme_groups[current_rhyme_group]) >= 2
  /\ current_word /= rhyme_groups[current_rhyme_group][1]

(* C13: after the write step of AddWord the file holds the complete        *)
(* serialization of the dictionary, or the write has raised; a truncated   *)
(* or partial file never goes with a write that is reported as done.       *)
C13_WholeOrReported ==
  [][ (pc = "loop" /\ writes' > writes)
      => (file' = Serialize(rhyme_groups') \/ pc' = "crashed") ]_vars

C13_Witness ==
  /\ pc = "crashed" /\ writes > 0
  /\ file /= Serialize(rhyme_groups)
  /\ file /= <<>>
  /\ file = SubSeq(Serialize(rhyme_groups), 1, Len(file))

(* C14: the append precedes the write and is not rolled back when the      *)
(* write fails.  As first stated, the claim adds that the file then does   *)
(* not contain the new word in that group.                                 *)
WriteFailed == pc = "loop" /\ writes' > writes /\ pc' = "crashed"

C14_StorageBehind ==
  [][ WriteFailed =>
        \E p \in {Parse(file')} :
          LET g == current_rhyme_group IN
          /\ rhyme_groups'[g] = Append(rhyme_groups[g], new_word')
          /\ ~(g <= Len(p.groups) /\ Occurs(new_word', p.groups[g])) ]_vars

(* C14 amended: whenever the write is attempted the group already ends     *)
(* with the new word in memory, and a failed write leaves it there; the    *)
(* file is then the old content or a partial rewrite.                      *)
C14_AppendKept ==
  [][ (pc = "loop" /\ writes' > writes) =>
        LET g == current_rhyme_group IN
        /\ Decoded(new_word')
        /\ rhyme_groups'[g] = Append(rhyme_groups[g], new_word')
        /\ pc' = "crashed" => file' /= Serialize(rhyme_groups') ]_vars

C14_Witness ==
  /\ pc = "crashed" /\ writes > 0 /\ key = "a"
  /\ rhyme_groups[current_rhyme_group][Len(rhyme_groups[current_rhyme_group])] = new_word
  /\ Parse(file).groups /= rhyme_groups

(* C15: AddWord neither creates nor removes a duplicate: in every group a  *)
(* word occurs as often as at load time, or once if it was absent then and *)
(* has been added; the loaded entries keep their positions.                *)
Count(group, w) == Cardinality({i \in DOMAIN group : group[i] = w})

Words(group) == {group[i] : i \in DOMAIN group}

C15_Multiplicity ==
  pc \in {"loop", "quit", "crashed"} =>
    /\ Len(rhyme_groups) = Len(loaded)
    /\ \A g \in 1..Len(loaded) :
         /\ Len(rhyme_groups[g]) >= Len(loaded[g])
         /\ SubSeq(rhyme_groups[g], 1, Len(loaded[g])) = loaded[g]
         /\ \A w \in Words(rhyme_groups[g]) \cup Words(loaded[g]) :
              Count(rhyme_groups[g], w) =
                (IF Count(loaded[g], w) > 0 THEN Count(loaded[g], w) ELSE 1)

C15_Witness ==
  /\ pc = "loop" /\ writes > 0 /\ key = "a"
  /\ \E g \in 1..Len(loaded) :
       /\ \E w \in Words(loaded[g]) : Count(loaded[g], w) = 2
       /\ Len(rhyme_groups[g]) > Len(loaded[g])

(* C16: while no write has failed, re-parsing the file gives exactly the   *)
(* in-memory dictionary: after load, after NewWord, ShowRhymes and a       *)
(* rejected AddWord, and again after the write of every accepted AddWord.  *)
C16_FileMatchesMemory ==
  pc \in {"loop", "quit"} => Parse(file) = [err |-> "ok", groups |-> rhyme_groups]

C16_Witness ==
  /\ pc = "loop" /\ writes > 0 /\ key = "space"
  /\ Len(rhyme_groups) >= 2
  /\ rhyme_groups /= loaded
  /\ Parse(file).groups = rhyme_groups

(* C17: in the loop the dictionary has at least one group, no group is     *)
(* empty, and every entry is a non-empty string with no leading or         *)
(* trailing whitespace.                                                    *)
Trimmed(w) == w /= <<>> /\ w[1] \notin Whitespace /\ w[Len(w)] \notin Whitespace

C17_WellFormed ==
  pc \in {"loop", "quit", "crashed"} =>
    /\ Len(rhyme_groups) >= 1
    /\ \A g \in 1..Len(rhyme_groups) :
         /\ Len(rhyme_groups[g]) >= 1
         /\ \A i \in 1..Len(rhyme_groups[g]) : Trimmed(rhyme_groups[g][i])

C17_Witness ==
  /\ pc = "loop" /\ writes > 0 /\ key = "a"
  /\ rhyme_groups[current_rhyme_group][Len(rhyme_groups[current_rhyme_group])] = new_word
  /\ \E i \in 1..Len(rhyme_groups[current_rhyme_group]) :
       \E k \in 1..Len(rhyme_groups[current_rhyme_group][i]) :
         rhyme_groups[current_rhyme_group][i][k] = " "

(* C18: the loop starts in Idle; in Idle and in Prompted each of NewWord,  *)
(* ShowRhymes, AddWord and Quit is accepted; Quit ends the session from    *)
(* either state and neither NewWord nor ShowRhymes ever ends it.           *)
C18_ActionsAccepted ==
  /\ [](pc = "loop" =>
          /\ key = "none" => (Idle /\ ~Prompted)
          /\ ENABLED NewWord /\ ENABLED ShowRhymes
          /\ ENABLED AddWord /\ ENABLED Quit)
  /\ [][ pc = "loop" =>
           /\ key' = "q" => pc' = "quit"
           /\ key' \in {"space", "r"} => pc' = "loop" ]_vars

C18_Witness == pc = "quit" /\ key = "q" /\ Prompted /\ writes > 0

(* C19: an accepted AddWord changes only the current group and only by     *)
(* appending: same number and order of groups, every other group (equal    *)
(* contents or not) untouched, old contents of the current group a prefix. *)
C19_OnlyCurrentGroup ==
  [][ (pc = "loop" /\ key' = "a" /\ writes' > writes /\ pc' = "loop") =>
        LET g == current_rhyme_group IN
        /\ Len(rhyme_groups') = Len(rhyme_groups)
        /\ \A h \in 1..Len(rhyme_groups) : h /= g => rhyme_groups'[h] = rhyme_groups[h]
        /\ Len(rhyme_groups'[g]) = Len(rhyme_groups[g]) + 1
        /\ SubSeq(rhyme_groups'[g], 1, Len(rhyme_groups[g])) = rhyme_groups[g] ]_vars

C19_Witness ==
  /\ pc = "loop" /\ key = "a" /\ writes > 0
  /\ \E h \in 1..Len(loaded) :
       /\ h /= current_rhyme_group
       /\ loaded[h] = loaded[current_rhyme_group]
       /\ rhyme_groups[h] = loaded[h]
       /\ rhyme_groups[current_rhyme_group] = Append(loaded[h], new_word)

(* C20: NewWord always succeeds on the loaded dictionary and leaves the    *)
(* session Prompted; once Prompted, no action of the loop unsets the       *)
(* current group or the current word.                                      *)
C20_PromptedForever ==
  /\ [](pc = "loop" => ENABLED NewWord)
  /\ [][ (pc = "loop" /\ key' = "space") =>
           (pc' = "loop" /\ Prompted' /\ ~Idle') ]_vars
  /\ [][ (Prompted /\ ~Idle) => (Prompted' /\ ~Idle') ]_vars

C20_Witness ==
  /\ pc = "loop" /\ Prompted /\ ~Idle /\ writes > 0
  /\ key = "r"

TypeOK == pc \in {"start", "loop", "error", "exited", "quit", "crashed"}
====
